---- MODULE Spec2Model ----
(***************************************************************************)
(* Job lifecycle of cads_api_client.processing: Remote.wait_on_result      *)
(* (status polling with backoff), Remote.build_result (results lookup      *)
(* with link fallback), Results.download (transfer and size check) and     *)
(* ApiResponse.get_links / get_link_href.                                  *)
(*                                                                         *)
(* Durations are floats in the source.  Every duration the program can     *)
(* produce within MaxPolls status requests is k / 2^MaxPolls for a natural *)
(* k, so a duration d is held as the integer d * Scale; all arithmetic on  *)
(* it is exact, as it is in IEEE doubles for these values.                 *)
(* An optional value (Python None or an absent JSON key) is a sequence of  *)
(* length 0, a present value v is <<v>>.  A URL is the sequence of its     *)
(* path segments.                                                          *)
(***************************************************************************)
EXTENDS Integers, Sequences, FiniteSets, TLC

\* ---- bounds of the model
MaxPolls == 6        \* status requests issued by one wait_on_result
MaxLinks == 2        \* links in a job document
MaxSize == 2         \* largest declared / transferred byte count
AltSleepMax == 2     \* a small configured ceiling, next to the default
MaxProcesses == 2    \* processes in the list the server returns
MaxPairPolls == 3    \* status requests of each of two concurrent handles

\* ---- program constants
DefaultSleepMax == 120
InitialSleep == 1
BackoffNum == 3
BackoffDen == 2

Scale == 2 ^ MaxPolls

None == <<>>
Some(v) == <<v>>

\* Python truthiness of an optional string (None and "" are falsy) and of an
\* optional integer (None and 0 are falsy).
TruthyStr(o) == o # None /\ o[1] # ""
TruthyInt(o) == o # None /\ o[1] # 0

\* ---- the server's documents
Recognized == {"accepted", "running", "successful", "failed"}
Statuses == Recognized \cup {"dismissed"}

MonitorUrl == <<"jobs", "42">>

Rels == {"results", "self", "monitor"}
LinkHrefs == {<<"store", "a">>, <<"store", "b">>}
Link == [rel : Rels, href : LinkHrefs]
LinkLists == UNION {[1..n -> Link] : n \in 0..MaxLinks}

Texts == {None, Some(""), Some("T")}
Details == {None, Some(""), Some("D")}
Hrefs == {None,
          Some([abs |-> TRUE, path |-> <<"data", "a.nc">>]),
          Some([abs |-> FALSE, path |-> <<"b.nc">>])}
Sizes == {None} \cup {Some(n) : n \in 0..MaxSize}
ResultsDocs == [title : Texts, detail : Details, href : Hrefs, size : Sizes]

\* The results document of a failed job describes the error and has no asset.
ErrorDocs == [title : Texts, detail : Details, href : {None}, size : {None}]

Targets == {None, Some("out.nc")}

ProcessIds == {"era5", "cams"}
ProcessLists == UNION {[1..n -> ProcessIds] : n \in 0..MaxProcesses}

\* ---- results of a call
NoResult == [kind |-> "none", type |-> "", msg |-> "", args |-> <<>>, value |-> None]
Return(v) == [kind |-> "return", type |-> "", msg |-> "", args |-> <<>>, value |-> v]
Raise(t, m, a) == [kind |-> "raise", type |-> t, msg |-> m, args |-> a, value |-> None]

\* ---- the log of what the program did (requests and sleeps, in order)
StatusEv(s) == [ev |-> "status", status |-> s, dur |-> 0, url |-> MonitorUrl]
SleepEv(d) == [ev |-> "sleep", status |-> "", dur |-> d, url |-> <<>>]
GetEv(u) == [ev |-> "get", status |-> "", dur |-> 0, url |-> u]
DownloadEv(u) == [ev |-> "download", status |-> "", dur |-> 0, url |-> u]
PostEv(u) == [ev |-> "post", status |-> "", dur |-> 0, url |-> u]

VARIABLES
    sleep_max,    \* Remote.sleep_max
    entry,        \* the method the caller invoked
    pc,           \* position of the call
    sleep,        \* wait_on_result: local sleep (scaled)
    last_status,  \* wait_on_result: local last_status
    status,       \* wait_on_result: local status
    response,     \* build_result: links of the job document, while it is held
    link_href,    \* build_result: outcome of response.get_link_href(rel="results")
    results_url,  \* build_result: local results_url, kept as the URL last resolved
    info,         \* wait_on_result: title and detail of the results document
    results,      \* the Results object build_result returned to the caller
    file,         \* the local file written by the transfer
    result,       \* what the call returned or raised
    cancelled,    \* an external cancellation signal has been raised
    log,          \* requests and sleeps performed so far
    status_info,  \* the StatusInfo the caller obtained: request method and links
    got_links,    \* what get_links returned to the caller, with the rel asked
    remote,       \* the Remote built by make_remote
    process_ids,  \* what ProcessList.process_ids() returned
    proc,         \* the Process the caller obtained: requested id and document
    server,       \* what the server may answer to a status request
    tracing,      \* whether log keeps the whole history or the last event
    handles       \* the Remote handles of concurrent callers

apiVars == <<status_info, got_links, remote, process_ids, proc>>
envVars == <<server, tracing>>

vars == <<sleep_max, entry, pc, sleep, last_status, status, response, link_href,
          results_url, info, results, file, result, cancelled, log,
          apiVars, envVars, handles>>

\* ---- ApiResponse
get_links(links, rel) ==
    SelectSeq(links, LAMBDA link : rel # None /\ link.rel = rel[1])

\* A resolution that takes the first match instead of insisting on one.
get_link_href_first(links, rel) ==
    LET found == get_links(links, rel)
    IN  IF Len(found) = 0
        THEN [raised |-> TRUE, href |-> <<>>]
        ELSE [raised |-> FALSE, href |-> found[1].href]

get_link_href(links, rel) ==
    LET found == get_links(links, rel)
    IN  IF Len(found) # 1
        THEN [raised |-> TRUE, href |-> <<>>]
        ELSE [raised |-> FALSE, href |-> found[1].href]

\* ---- StatusInfo
\* A choice of relation that ignores how the document was obtained.
RemoteRelSelf(method) == "self"

\* make_remote: monitor for the response to a POST, self otherwise.
RemoteRel(method) == IF method = "POST" THEN "monitor" ELSE "self"

\* ---- Remote
\* A backoff that forgets the ceiling.
BackoffUnclamped(s, ceiling) == (s * BackoffNum) \div BackoffDen

\* sleep *= 1.5; if sleep > self.sleep_max: sleep = self.sleep_max
Backoff(s, ceiling) ==
    LET next == (s * BackoffNum) \div BackoffDen
    IN  IF next > ceiling * Scale THEN ceiling * Scale ELSE next

\* A fallback that asks the monitoring URL itself.
ResultsUrlNoSuffix(url, res) ==
    IF res.raised THEN url ELSE res.href

\* except RuntimeError: results_url = f"{self.url}/results"
ResultsUrl(url, res) ==
    IF res.raised THEN Append(url, "results") ELSE res.href

\* A message that leaves the detail out.
ErrorMessageTitleOnly(doc) ==
    IF TruthyStr(doc.title) THEN doc.title[1] ELSE "processing failed"

ErrorMessage(doc) ==
    LET base == IF TruthyStr(doc.title) THEN doc.title[1] ELSE "processing failed"
    IN  IF TruthyStr(doc.detail) THEN base \o ": " \o doc.detail[1] ELSE base

UnknownStateMessage(s) == "Unknown API state '" \o s \o "'"

\* ---- Results
urljoin(base, href) ==
    IF href = None THEN base
    ELSE IF href[1].abs THEN href[1].path
    ELSE SubSeq(base, 1, Len(base) - 1) \o href[1].path

DefaultTarget(url) == url[Len(url)]

\* The branch of the loop a status takes (lines 103, 105, 115, 119).
\* A loop that takes an unrecognized status for a transient one.
BranchRetriesUnknown(s) ==
    IF s = "successful" THEN "break"
    ELSE IF s = "failed" THEN "fail"
    ELSE "sleep"

\* A loop that does not stop on successful.
BranchNoBreak(s) ==
    IF s = "failed" THEN "fail"
    ELSE IF s \in {"accepted", "running", "successful"} THEN "sleep"
    ELSE "raise"

Branch(s) ==
    IF s = "successful" THEN "break"
    ELSE IF s = "failed" THEN "fail"
    ELSE IF s \in {"accepted", "running"} THEN "sleep"
    ELSE "raise"

\* ---- the server and the history
\* What the server may return as status: anything, only non-terminal values,
\* or only terminal values.
Answers ==
    IF server = "pending" THEN {"accepted", "running"}
    ELSE IF server = "settled" THEN {"successful", "failed"}
    ELSE Statuses

\* The history keeps every event, or only the latest one when the run is
\* followed without end.
Record(l, e) == IF tracing THEN Append(l, e) ELSE <<e>>

\* ---- derived views of the log
StatusLog == SelectSeq(log, LAMBDA e : e.ev = "status")
SleepLog == SelectSeq(log, LAMBDA e : e.ev = "sleep")
NumStatus == Len(StatusLog)

\* No call has been made yet.
InitCall ==
    /\ entry = "none"
    /\ pc = "idle"
    /\ sleep = 0
    /\ last_status = None
    /\ status = None
    /\ response = None
    /\ link_href = None
    /\ results_url = None
    /\ info = None
    /\ results = None
    /\ file = None
    /\ result = NoResult
    /\ cancelled = FALSE
    /\ log = <<>>
    /\ status_info = None
    /\ got_links = None
    /\ remote = None
    /\ process_ids = None
    /\ proc = None

\* One caller, one handle, a server free to answer any status, full history.
Init ==
    /\ InitCall
    /\ sleep_max \in {AltSleepMax, DefaultSleepMax}
    /\ server = "free"
    /\ tracing = TRUE
    /\ handles = <<>>

\* The caller invokes remote.download(target) or remote.wait_on_result();
\* wait_on_result starts with sleep = 1.0.
CallWait ==
    /\ pc = "idle"
    /\ entry' \in {"download", "wait_on_result"}
    /\ pc' = "prime"
    /\ sleep' = InitialSleep * Scale
    /\ UNCHANGED <<sleep_max, last_status, status, response, link_href, results_url,
                   info, results, file, result, cancelled, log>>
    /\ UNCHANGED <<apiVars, envVars, handles>>

\* The caller invokes remote.build_result().
CallBuildResult ==
    /\ pc = "idle"
    /\ entry' = "build_result"
    /\ pc' = "build_job"
    /\ UNCHANGED <<sleep_max, sleep, last_status, status, response, link_href,
                   results_url, info, results, file, result, cancelled, log>>
    /\ UNCHANGED <<apiVars, envVars, handles>>

\* A first request whose answer is acted upon when it is successful.
PrimePollChecked ==
    /\ pc = "prime"
    /\ \E s \in Answers :
        /\ last_status' = Some(s)
        /\ log' = Record(log, StatusEv(s))
        /\ pc' = IF s = "successful" THEN "waited" ELSE "loop"
    /\ UNCHANGED <<sleep_max, entry, sleep, status, response, link_href, results_url,
                   info, results, file, result, cancelled>>
    /\ UNCHANGED <<apiVars, envVars, handles>>

\* last_status = self.status
PrimePoll ==
    /\ pc = "prime"
    /\ \E s \in Answers :
        /\ last_status' = Some(s)
        /\ log' = Record(log, StatusEv(s))
    /\ pc' = "loop"
    /\ UNCHANGED <<sleep_max, entry, sleep, status, response, link_href, results_url,
                   info, results, file, result, cancelled>>
    /\ UNCHANGED <<apiVars, envVars, handles>>

\* One pass of the while loop up to time.sleep: status = self.status and the
\* branch on it.
LoopPoll ==
    /\ pc = "loop"
    /\ tracing => NumStatus < MaxPolls
    /\ \E s \in Answers :
        /\ status' = Some(s)
        /\ log' = Record(log, StatusEv(s))
        /\ IF Branch(s) = "break"
           THEN /\ pc' = "waited"
                /\ UNCHANGED <<sleep, result>>
           ELSE IF Branch(s) = "fail"
           THEN /\ pc' = "build_job"
                /\ UNCHANGED <<sleep, result>>
           ELSE IF Branch(s) = "sleep"
           THEN /\ sleep' = Backoff(sleep, sleep_max)
                /\ pc' = "sleep"
                /\ UNCHANGED result
           ELSE /\ result' = Raise("ProcessingFailedError", UnknownStateMessage(s), <<>>)
                /\ pc' = "done"
                /\ UNCHANGED sleep
    /\ UNCHANGED <<sleep_max, entry, last_status, response, link_href, results_url,
                   info, results, file, cancelled>>
    /\ UNCHANGED <<apiVars, envVars, handles>>

\* time.sleep(sleep)
Sleep ==
    /\ pc = "sleep"
    /\ log' = Record(log, SleepEv(sleep))
    /\ pc' = "loop"
    /\ UNCHANGED <<sleep_max, entry, sleep, last_status, status, response, link_href,
                   results_url, info, results, file, result, cancelled>>
    /\ UNCHANGED <<apiVars, envVars, handles>>

\* wait_on_result was called directly and returns None.
WaitReturn ==
    /\ pc = "waited"
    /\ entry = "wait_on_result"
    /\ result' = Return(None)
    /\ pc' = "done"
    /\ UNCHANGED <<sleep_max, entry, sleep, last_status, status, response, link_href,
                   results_url, info, results, file, cancelled, log>>
    /\ UNCHANGED <<apiVars, envVars, handles>>

\* Remote.download after wait_on_result: the class body defines download twice
\* and the second definition is the one bound; it calls self._download_result,
\* which Remote does not define.
Download ==
    /\ pc = "waited"
    /\ entry = "download"
    /\ result' = Raise("AttributeError", "_download_result", <<>>)
    /\ pc' = "done"
    /\ UNCHANGED <<sleep_max, entry, sleep, last_status, status, response, link_href,
                   results_url, info, results, file, cancelled, log>>
    /\ UNCHANGED <<apiVars, envVars, handles>>

\* build_result: GET self.url and the resolution of the results URL.
BuildResultGetJob ==
    /\ pc = "build_job"
    /\ \E links \in LinkLists :
        /\ response' = Some(links)
        /\ link_href' = Some(get_link_href(links, Some("results")))
        /\ results_url' = Some(ResultsUrl(MonitorUrl,
                                          get_link_href(links, Some("results"))))
    /\ log' = Record(log, GetEv(MonitorUrl))
    /\ pc' = "build_results"
    /\ UNCHANGED <<sleep_max, entry, sleep, last_status, status, info,
                   results, file, result, cancelled>>
    /\ UNCHANGED <<apiVars, envVars, handles>>

\* build_result: GET results_url and return Results.  Called by the caller, the
\* Results object is handed back.  Called from the failed branch of
\* wait_on_result, the message is built from the document's title and detail
\* and ProcessingFailedError is raised, which ends both frames.
BuildResultGetResults ==
    /\ pc = "build_results"
    /\ log' = Record(log, GetEv(results_url[1]))
    /\ IF entry = "build_result"
       THEN /\ \E doc \in ResultsDocs :
                 results' = Some([url |-> results_url[1], json |-> doc])
            /\ pc' = "have_results"
            /\ UNCHANGED <<info, result>>
       ELSE /\ \E doc \in ErrorDocs :
                 /\ info' = Some([title |-> doc.title, detail |-> doc.detail])
                 /\ result' = Raise("ProcessingFailedError", ErrorMessage(doc), <<>>)
            /\ pc' = "done"
            /\ UNCHANGED results
    /\ response' = None
    /\ UNCHANGED <<sleep_max, entry, sleep, last_status, status, link_href,
                   results_url, file, cancelled>>
    /\ UNCHANGED <<apiVars, envVars, handles>>

\* Results.download(target) on the object build_result returned.
ResultsDownload ==
    /\ pc = "have_results"
    /\ \E target \in Targets, target_size \in 0..MaxSize :
        LET json == results[1].json
            url == urljoin(results[1].url, json.href)
            path == IF target = None THEN DefaultTarget(url) ELSE target[1]
        IN  /\ log' = Record(log, DownloadEv(url))
            /\ file' = Some([name |-> path, size |-> target_size])
            /\ result' =
                 IF json.size = None
                 THEN Raise("KeyError", "file:size", <<>>)
                 ELSE IF TruthyInt(json.size) /\ target_size # json.size[1]
                 THEN Raise("DownloadError", "Download failed",
                            <<target_size, json.size[1]>>)
                 ELSE Return(Some(path))
    /\ pc' = "done"
    /\ UNCHANGED <<sleep_max, entry, sleep, last_status, status, response, link_href,
                   results_url, info, results, cancelled>>
    /\ UNCHANGED <<apiVars, envVars, handles>>

\* The environment raises the cancellation signal while a wait is in progress.
Cancel ==
    /\ pc \in {"prime", "loop", "sleep"}
    /\ ~cancelled
    /\ cancelled' = TRUE
    /\ UNCHANGED <<sleep_max, entry, pc, sleep, last_status, status, response, link_href,
                   results_url, info, results, file, result, log>>
    /\ UNCHANGED <<apiVars, envVars, handles>>

\* Processing.process_execute (POST .../execute) or Processing.job (GET
\* jobs/<id>): StatusInfo.from_request wraps the response.
CallStatusInfo ==
    /\ pc = "idle"
    /\ \E e \in {"process_execute", "job"}, links \in LinkLists :
        /\ entry' = e
        /\ status_info' = Some([method |-> IF e = "process_execute" THEN "POST" ELSE "GET",
                                links |-> links])
        /\ log' = Record(log, IF e = "process_execute"
                              THEN PostEv(<<"processes", "p", "execute">>)
                              ELSE GetEv(MonitorUrl))
    /\ pc' = "have_status_info"
    /\ UNCHANGED <<sleep_max, sleep, last_status, status, response, link_href,
                   results_url, info, results, file, result, cancelled>>
    /\ UNCHANGED <<got_links, remote, process_ids, proc, envVars, handles>>

\* The caller asks the document for its links: get_links() or get_links(rel).
GetLinks ==
    /\ pc = "have_status_info"
    /\ \E rel \in {None} \cup {Some(r) : r \in Rels} :
        got_links' = Some([rel |-> rel,
                           links |-> get_links(status_info[1].links, rel)])
    /\ result' = Return(None)
    /\ pc' = "done"
    /\ UNCHANGED <<sleep_max, entry, sleep, last_status, status, response, link_href,
                   results_url, info, results, file, cancelled, log>>
    /\ UNCHANGED <<status_info, remote, process_ids, proc, envVars, handles>>

\* StatusInfo.make_remote()
MakeRemote ==
    /\ pc = "have_status_info"
    /\ LET res == get_link_href(status_info[1].links,
                                Some(RemoteRel(status_info[1].method)))
       IN  IF res.raised
           THEN /\ result' = Raise("RuntimeError", "link not found or not unique", <<>>)
                /\ UNCHANGED remote
           ELSE /\ remote' = Some([url |-> res.href, sleep_max |-> DefaultSleepMax])
                /\ result' = Return(None)
    /\ pc' = "done"
    /\ UNCHANGED <<sleep_max, entry, sleep, last_status, status, response, link_href,
                   results_url, info, results, file, cancelled, log>>
    /\ UNCHANGED <<status_info, got_links, process_ids, proc, envVars, handles>>

\* Processing.processes() and ProcessList.process_ids()
CallProcesses ==
    /\ pc = "idle"
    /\ entry' = "processes"
    /\ \E ids \in ProcessLists : process_ids' = Some(ids)
    /\ log' = Record(log, GetEv(<<"processes">>))
    /\ pc' = "have_process_ids"
    /\ UNCHANGED <<sleep_max, sleep, last_status, status, response, link_href,
                   results_url, info, results, file, result, cancelled>>
    /\ UNCHANGED <<status_info, got_links, remote, proc, envVars, handles>>

\* Processing.process(process_id) for a listed id: Process.from_request wraps
\* the server's description of that process.
CallProcess ==
    /\ pc = "have_process_ids"
    /\ \E i \in DOMAIN process_ids[1], links \in LinkLists :
        LET process_id == process_ids[1][i]
        IN  /\ proc' = Some([requested |-> process_id,
                             json |-> [id |-> process_id, links |-> links]])
            /\ log' = Record(log, GetEv(<<"processes", process_id>>))
    /\ pc' = "have_process"
    /\ UNCHANGED <<sleep_max, entry, sleep, last_status, status, response, link_href,
                   results_url, info, results, file, result, cancelled>>
    /\ UNCHANGED <<status_info, got_links, remote, process_ids, envVars, handles>>

\* The caller reads res.id: class Process declares execute and nothing else,
\* and ApiResponse declares no id either.
ProcessId ==
    /\ pc = "have_process"
    /\ result' = Raise("AttributeError", "id", <<>>)
    /\ pc' = "done"
    /\ UNCHANGED <<sleep_max, entry, sleep, last_status, status, response, link_href,
                   results_url, info, results, file, cancelled, log>>
    /\ UNCHANGED <<apiVars, envVars, handles>>

Next ==
    \/ CallWait
    \/ CallBuildResult
    \/ PrimePoll
    \/ LoopPoll
    \/ Sleep
    \/ WaitReturn
    \/ Download
    \/ BuildResultGetJob
    \/ BuildResultGetResults
    \/ ResultsDownload
    \/ Cancel
    \/ CallStatusInfo
    \/ GetLinks
    \/ MakeRemote
    \/ CallProcesses
    \/ CallProcess
    \/ ProcessId

Spec == Init /\ [][Next]_vars

\* ---- the wait followed without end
\* The server is free or answers accepted/running for ever; the ceiling is the
\* small one, so that the interval settles within the scale.
InitLive ==
    /\ InitCall
    /\ sleep_max = AltSleepMax
    /\ server \in {"free", "pending"}
    /\ tracing = FALSE
    /\ handles = <<>>

\* From now on the job is finished: every status request is answered
\* successful or failed.
Settle ==
    /\ server = "free"
    /\ pc \in {"prime", "loop", "sleep"}
    /\ server' = "settled"
    /\ UNCHANGED <<sleep_max, entry, pc, sleep, last_status, status, response,
                   link_href, results_url, info, results, file, result,
                   cancelled, log, apiVars, tracing, handles>>

\* The statements of wait_on_result and of what it calls.  The call runs on one
\* blocking thread: once a request has been answered or a sleep is over, the
\* next statement runs.
WaitStep ==
    \/ PrimePoll
    \/ LoopPoll
    \/ Sleep
    \/ WaitReturn
    \/ Download
    \/ BuildResultGetJob
    \/ BuildResultGetResults

NextLive ==
    \/ Next
    \/ Settle

SpecLive == InitLive /\ [][NextLive]_vars /\ WF_vars(WaitStep)

\* ---- two callers, each waiting on its own Remote
HandleIds == {1, 2}
HandleUrl(h) == <<"jobs", IF h = 1 THEN "42" ELSE "43">>

NewHandle(h, ceiling) ==
    [url |-> HandleUrl(h), sleep_max |-> ceiling, pc |-> "prime",
     sleep |-> InitialSleep * Scale, last_status |-> None, status |-> None,
     log |-> <<>>, result |-> NoResult]

InitPair ==
    /\ InitCall
    /\ sleep_max = DefaultSleepMax
    /\ server = "free"
    /\ tracing = TRUE
    /\ \E c2 \in {AltSleepMax, DefaultSleepMax} :
          handles = [h \in HandleIds |->
                        NewHandle(h, IF h = 1 THEN AltSleepMax ELSE c2)]

\* The documents a failed job of the pair may get: no link or one results
\* link, and an error with or without a title.
PairLinkLists == {links \in LinkLists :
                    /\ Len(links) <= 1
                    /\ \A i \in DOMAIN links :
                          links[i] = [rel |-> "results", href |-> <<"store", "a">>]}
PairErrorDocs == {doc \in ErrorDocs : doc.detail = None /\ doc.title # Some("")}

\* An interval kept in one place for all handles.
SharedSleep(hs, h) == hs[1].sleep

\* sleep is a local of the running wait_on_result.
LocalSleep(hs, h) == hs[h].sleep

HandleStatusLog(me) == SelectSeq(me.log, LAMBDA e : e.ev = "status")

PairUnchanged ==
    UNCHANGED <<sleep_max, entry, pc, sleep, last_status, status, response,
                link_href, results_url, info, results, file, result, cancelled,
                log, apiVars, envVars>>

\* last_status = self.status
PairPrimePoll(h) ==
    /\ handles[h].pc = "prime"
    /\ \E s \in Answers :
        handles' = [handles EXCEPT
                      ![h].last_status = Some(s),
                      ![h].log = Append(@, [StatusEv(s) EXCEPT !.url = handles[h].url]),
                      ![h].pc = "loop"]
    /\ PairUnchanged

\* status = self.status and the branch on it
PairLoopPoll(h) ==
    /\ handles[h].pc = "loop"
    /\ Len(HandleStatusLog(handles[h])) < MaxPairPolls
    /\ \E s \in Answers :
        LET polled == [handles EXCEPT
                         ![h].status = Some(s),
                         ![h].log = Append(@, [StatusEv(s) EXCEPT !.url = handles[h].url])]
        IN  handles' =
              IF Branch(s) = "break"
              THEN [polled EXCEPT ![h].pc = "done", ![h].result = Return(None)]
              ELSE IF Branch(s) = "fail"
              THEN [polled EXCEPT ![h].pc = "failed"]
              ELSE IF Branch(s) = "sleep"
              THEN [polled EXCEPT
                      ![h].sleep = Backoff(LocalSleep(handles, h), handles[h].sleep_max),
                      ![h].pc = "sleep"]
              ELSE [polled EXCEPT
                      ![h].pc = "done",
                      ![h].result = Raise("ProcessingFailedError",
                                          UnknownStateMessage(s), <<>>)]
    /\ PairUnchanged

\* time.sleep(sleep)
PairSleep(h) ==
    /\ handles[h].pc = "sleep"
    /\ handles' = [handles EXCEPT
                     ![h].log = Append(@, SleepEv(LocalSleep(handles, h))),
                     ![h].pc = "loop"]
    /\ PairUnchanged

\* The failed branch: build_result (two GETs) and the raise.
PairFailed(h) ==
    /\ handles[h].pc = "failed"
    /\ \E links \in PairLinkLists, doc \in PairErrorDocs :
        LET target == ResultsUrl(handles[h].url, get_link_href(links, Some("results")))
        IN  handles' = [handles EXCEPT
                          ![h].log = @ \o <<GetEv(handles[h].url), GetEv(target)>>,
                          ![h].result = Raise("ProcessingFailedError",
                                              ErrorMessage(doc), <<>>),
                          ![h].pc = "done"]
    /\ PairUnchanged

NextPair ==
    \/ \E h \in HandleIds : PairPrimePoll(h)
    \/ \E h \in HandleIds : PairLoopPoll(h)
    \/ \E h \in HandleIds : PairSleep(h)
    \/ \E h \in HandleIds : PairFailed(h)

SpecPair == InitPair /\ [][NextPair]_vars

\* ---- views used by the properties
StatusSeq == [i \in 1..Len(StatusLog) |-> StatusLog[i].status]
SleepDurs == [i \in 1..Len(SleepLog) |-> SleepLog[i].dur]
Ceiling == sleep_max * Scale
InWait == entry \in {"download", "wait_on_result"}

\* wait_on_result has returned normally: either nothing ran after it yet, or
\* the caller's next statement did.
WaitReturned ==
    \/ pc = "waited"
    \/ pc = "done" /\ result.kind = "return"
    \/ pc = "done" /\ result.type = "AttributeError"

\* C1: Remote.download, for a job that reaches successful, polls until the
\* terminal status, then fetches the results document, then transfers the
\* asset, and returns the local path; no results or asset request precedes the
\* observation of successful.
C1_DownloadSequencesStages ==
    (entry = "download" /\ pc = "done" /\ status = Some("successful")) =>
        /\ result.kind = "return"
        /\ result.value # None
        /\ \E i, j, k \in DOMAIN log :
              /\ i < j /\ j < k
              /\ log[i] = StatusEv("successful")
              /\ log[j].ev = "get"
              /\ log[k].ev = "download"
        /\ \A j \in DOMAIN log :
              log[j].ev \in {"get", "download"} =>
                  \E i \in 1..(j - 1) : log[i] = StatusEv("successful")

\* C2: every finished wait whose status responses contain failed has raised
\* ProcessingFailedError, and the message carries the title and detail of the
\* results document when they are non-empty, else the generic text.
C2_Message(doc) ==
    IF TruthyStr(doc.title) /\ TruthyStr(doc.detail)
    THEN doc.title[1] \o ": " \o doc.detail[1]
    ELSE IF TruthyStr(doc.title) THEN doc.title[1]
    ELSE IF TruthyStr(doc.detail) THEN "processing failed: " \o doc.detail[1]
    ELSE "processing failed"

C2_FailedRaisesProcessingFailed ==
    (/\ InWait
     /\ pc \in {"waited", "done"}
     /\ \E i \in DOMAIN StatusSeq : StatusSeq[i] = "failed") =>
        /\ ~WaitReturned
        /\ result.kind = "raise"
        /\ result.type = "ProcessingFailedError"
        /\ info # None => result.msg = C2_Message(info[1])

\* C3: a status outside the four recognized values is fatal at its first
\* observation: the call has raised, and no request or sleep follows it.
C3_UnknownStatusIsFatalAtOnce ==
    \A i \in DOMAIN log :
        (log[i].ev = "status" /\ log[i].status \notin Recognized) =>
            /\ i = Len(log)
            /\ pc = "done"
            /\ result.kind = "raise"

\* C4: with the responses accepted, running, successful the wait issues exactly
\* 3 status requests, sleeps 1.0 and then 1.5 between them, and returns
\* normally.
C4_AcceptedRunningSuccessfulScenario ==
    (InWait /\ StatusSeq = <<"accepted", "running", "successful">>) =>
        /\ WaitReturned
        /\ SleepDurs = <<Scale, (3 * Scale) \div 2>>

\* C5: a finished wait whose responses are accepted/running followed by a final
\* successful returned without raising, and its sleeps never exceed sleep_max
\* and never decrease: each is 1.5 times the one before, or sleep_max once that
\* product passes the ceiling, and sleep_max from then on.
C5_BackoffMonotoneToCeiling ==
    (/\ InWait
     /\ pc \in {"waited", "done"}
     /\ StatusSeq # <<>>
     /\ StatusSeq[Len(StatusSeq)] = "successful"
     /\ \A i \in 1..(Len(StatusSeq) - 1) : StatusSeq[i] \in {"accepted", "running"}) =>
        /\ WaitReturned
        /\ \A i \in DOMAIN SleepDurs : SleepDurs[i] <= Ceiling
        /\ \A i \in 1..(Len(SleepDurs) - 1) :
              /\ SleepDurs[i] <= SleepDurs[i + 1]
              /\ IF 3 * SleepDurs[i] > 2 * Ceiling
                 THEN SleepDurs[i + 1] = Ceiling
                 ELSE 2 * SleepDurs[i + 1] = 3 * SleepDurs[i]

C5_Witness ==
    /\ entry = "wait_on_result"
    /\ pc = "done"
    /\ result = Return(None)
    /\ \A i \in 1..(Len(StatusSeq) - 1) : StatusSeq[i] \in {"accepted", "running"}
    /\ \E i, j \in DOMAIN SleepDurs :
          /\ i < j /\ j < Len(SleepDurs)
          /\ SleepDurs[i] < SleepDurs[i + 1]
          /\ SleepDurs[j] = Ceiling
          /\ SleepDurs[j + 1] = Ceiling

\* C6: when the results document declares a size (0 included), Results.download
\* returns the local path exactly when the transferred byte count equals the
\* declared size, and otherwise raises DownloadError reporting (actual, declared).
C6_DeclaredSizeMustMatch ==
    (/\ entry = "build_result"
     /\ pc = "done"
     /\ file # None
     /\ results[1].json.href # None
     /\ results[1].json.size # None) =>
        IF file[1].size = results[1].json.size[1]
        THEN result = Return(Some(file[1].name))
        ELSE /\ result.kind = "raise"
             /\ result.type = "DownloadError"
             /\ result.args = <<file[1].size, results[1].json.size[1]>>

\* The links of a job document whose rel is the given relation.
Matching(links, rel) == {i \in DOMAIN links : links[i].rel = rel}

\* C7: build_result never fails on link resolution: with exactly one results
\* link in the job document it fetches that link's href, with none or several
\* it fetches <monitor-url>/results.
C7_ResultsUrlFallback ==
    /\ response # None =>
          LET m == Matching(response[1], "results")
          IN  /\ pc = "build_results"
              /\ result.kind = "none"
              /\ results_url =
                    IF Cardinality(m) = 1
                    THEN Some(response[1][CHOOSE i \in m : TRUE].href)
                    ELSE Some(MonitorUrl \o <<"results">>)
    /\ (results_url # None /\ pc \in {"have_results", "done"}) =>
          \E k \in DOMAIN log :
              /\ log[k] = GetEv(results_url[1])
              /\ k > 1
              /\ log[k - 1] = GetEv(MonitorUrl)
              /\ \A j \in (k + 1)..Len(log) : log[j].ev # "get"
    /\ pc = "have_results" => results[1].url = results_url[1]

C7_Witness ==
    /\ pc = "have_results"
    /\ link_href[1].raised
    /\ log = <<GetEv(MonitorUrl), GetEv(<<"jobs", "42", "results">>)>>

\* C8: get_link_href returns the href of the link carrying the relation when
\* exactly one link carries it, and raises (yielding no href at all) when
\* none or several do.
C8_Expected(links, rel) ==
    LET m == Matching(links, rel)
    IN  IF Cardinality(m) = 1
        THEN [raised |-> FALSE, href |-> links[CHOOSE i \in m : TRUE].href]
        ELSE [raised |-> TRUE, href |-> <<>>]

C8_LinkHrefUniqueOrError ==
    response # None =>
        /\ link_href = Some(C8_Expected(response[1], "results"))
        /\ \A rel \in Rels :
              get_link_href(response[1], Some(rel)) = C8_Expected(response[1], rel)

C8_Witness ==
    /\ response # None
    /\ Cardinality(Matching(response[1], "results")) = 1
    /\ Len(response[1]) = 2
    /\ ~link_href[1].raised
    /\ link_href[1].href = response[1][2].href
    /\ response[1][1].href # response[1][2].href

\* C9: once a status request has returned successful or failed, no further
\* status request is issued.
C9_TerminalStatusStopsPolling ==
    \A i, j \in DOMAIN log :
        (i < j /\ log[i].ev = "status" /\ log[i].status \in {"successful", "failed"}) =>
            log[j].ev # "status"

\* C10: once the cancellation signal is raised, the wait issues no further
\* status request and starts no further sleep.
C10_CancellationStopsWait ==
    [][cancelled => (StatusLog' = StatusLog /\ SleepLog' = SleepLog)]_vars

\* C11: when the results document declares no size, Results.download
\* transfers the asset, compares nothing, raises nothing and returns the
\* local path.
C11_AbsentSizeSkipsCheck ==
    (/\ entry = "build_result"
     /\ pc = "done"
     /\ results # None
     /\ results[1].json.href # None
     /\ results[1].json.size = None) =>
        /\ file # None
        /\ result = Return(Some(file[1].name))

\* C12: when the results document has no href, Results.download fails with an
\* error, requests no asset and writes no local file.
C12_AbsentHrefIsFatal ==
    (/\ entry = "build_result"
     /\ pc = "done"
     /\ results # None
     /\ results[1].json.href = None) =>
        /\ result.kind = "raise"
        /\ file = None
        /\ \A i \in DOMAIN log : log[i].ev # "download"

\* C13: get_links returns, in document order, every link of the document when
\* no relation is given and exactly the links carrying the relation when one
\* is given.
C13_Expected(links, rel) ==
    IF rel = None
    THEN links
    ELSE SelectSeq(links, LAMBDA l : l.rel = rel[1])

C13_GetLinksAllOrMatching ==
    got_links # None =>
        /\ result.kind = "return"
        /\ got_links[1].links = C13_Expected(status_info[1].links, got_links[1].rel)

\* C14: make_remote builds the handle from the one monitor link of a POST
\* response and from the one self link of any other response; when that
\* relation is not carried by exactly one link it raises and builds no handle.
C14_MakeRemoteByMethod ==
    (entry \in {"process_execute", "job"} /\ pc = "done" /\ got_links = None) =>
        LET rel == IF entry = "process_execute" THEN "monitor" ELSE "self"
            m == Matching(status_info[1].links, rel)
        IN  IF Cardinality(m) = 1
            THEN /\ result.kind = "return"
                 /\ remote # None
                 /\ remote[1].url = status_info[1].links[CHOOSE i \in m : TRUE].href
            ELSE /\ result.kind = "raise"
                 /\ result.type = "RuntimeError"
                 /\ remote = None

C14_Witness ==
    /\ entry = "process_execute"
    /\ pc = "done"
    /\ remote # None
    /\ Len(status_info[1].links) = 2
    /\ status_info[1].links[1].rel = "self"
    /\ status_info[1].links[2].rel = "monitor"
    /\ status_info[1].links[1].href # status_info[1].links[2].href
    /\ remote[1].url = status_info[1].links[2].href

\* C15: for every listed process id, Processing.process returns a Process
\* whose id is the requested id and whose document carries a list of links.
C15_ProcessIdIsRequested ==
    (entry = "processes" /\ pc = "done") =>
        /\ \E i \in DOMAIN process_ids[1] : process_ids[1][i] = proc[1].requested
        /\ result = Return(Some(proc[1].requested))
        /\ proc[1].json.links \in LinkLists

\* C16: once the server answers only successful or failed, wait_on_result
\* terminates; while every answer is accepted or running it never terminates
\* and keeps alternating status request and sleep, without any cap.
C16_TerminatesOnlyOnTerminalStatus ==
    /\ (server = "settled") ~> (pc = "done")
    /\ []((server = "pending" /\ InWait) => pc \in {"prime", "loop", "sleep"})
    /\ (server = "pending" /\ InWait) ~> (log = <<SleepEv(sleep)>>)
    /\ (server = "pending" /\ InWait) ~> (log # <<>> /\ log[1].ev = "status")

C16_Witness ==
    /\ server = "settled"
    /\ InWait
    /\ pc = "done"
    /\ sleep = Ceiling
    /\ status = Some("successful")

\* C17: when the loop's status request returns failed, wait_on_result fetches
\* the job document and then the results document, with no sleep in between,
\* and raises ProcessingFailedError with "<title>: <detail>", "<title>",
\* "processing failed: <detail>" or "processing failed", according to which of
\* title and detail are non-empty.
C17_Message(doc) ==
    LET hasTitle == doc.title \notin {None, Some("")}
        hasDetail == doc.detail \notin {None, Some("")}
    IN  CASE hasTitle /\ hasDetail -> doc.title[1] \o ": " \o doc.detail[1]
          [] hasTitle /\ ~hasDetail -> doc.title[1]
          [] ~hasTitle /\ hasDetail -> "processing failed: " \o doc.detail[1]
          [] OTHER -> "processing failed"

RECURSIVE AloneFrom(_, _, _, _, _)
AloneFrom(seq, i, cur, ceiling, slept) ==
    IF i > Len(seq)
    THEN [outcome |-> "running", sleeps |-> slept, polls |-> Len(seq)]
    ELSE IF Branch(seq[i]) = "sleep"
    THEN AloneFrom(seq, i + 1, Backoff(cur, ceiling), ceiling,
                   Append(slept, Backoff(cur, ceiling)))
    ELSE [outcome |-> Branch(seq[i]), sleeps |-> slept, polls |-> i]

Alone(seq, ceiling) == AloneFrom(seq, 2, InitialSleep * Scale, ceiling, <<>>)

\* C18: two handles with different URLs waiting concurrently, under any
\* interleaving: each handle's outcome, number of status requests and sleeps
\* are those of a wait that runs alone on the handle's own status sequence.
C18_HandlesDoNotInterfere ==
    \A h \in DOMAIN handles :
        LET me == handles[h]
            polled == HandleStatusLog(me)
            seq == [i \in 1..Len(polled) |-> polled[i].status]
            slept == SelectSeq(me.log, LAMBDA e : e.ev = "sleep")
            durs == [i \in 1..Len(slept) |-> slept[i].dur]
            ref == Alone(seq, me.sleep_max)
        IN  /\ ref.polls = Len(seq)
            /\ \A i \in DOMAIN polled : polled[i].url = HandleUrl(h)
            /\ IF me.pc = "sleep"
               THEN ref.sleeps = Append(durs, me.sleep)
               ELSE ref.sleeps = durs
            /\ ref.outcome = "running" <=> me.pc \in {"prime", "loop", "sleep"}
            /\ ref.outcome = "break" <=> me.result = Return(None) /\ me.pc = "done"
            /\ ref.outcome = "fail" <=>
                  \/ me.pc = "failed"
                  \/ /\ me.pc = "done"
                     /\ me.result.type = "ProcessingFailedError"
                     /\ me.status = Some("failed")
            /\ ref.outcome = "raise" <=>
                  /\ me.pc = "done"
                  /\ me.result = Raise("ProcessingFailedError",
                                       UnknownStateMessage(seq[Len(seq)]), <<>>)
                  /\ me.status # Some("failed")

C18_Witness ==
    /\ handles # <<>>
    /\ handles[1].sleep_max = AltSleepMax
    /\ handles[2].sleep_max = DefaultSleepMax
    /\ handles[1].pc = "done"
    /\ handles[1].result = Return(None)
    /\ \E i \in DOMAIN handles[1].log : handles[1].log[i].ev = "sleep"
    /\ handles[2].pc = "sleep"
    /\ handles[2].sleep > AltSleepMax * Scale
    /\ Len(HandleStatusLog(handles[2])) = MaxPairPolls

C20_FirstPollIsPriming ==
    (InWait /\ StatusSeq # <<>>) =>
        LET ref == Alone(<<"accepted">> \o Tail(StatusSeq), sleep_max)
        IN  /\ ref.polls = NumStatus
            /\ IF pc = "sleep"
               THEN ref.sleeps = Append(SleepDurs, sleep)
               ELSE ref.sleeps = SleepDurs
            /\ ref.outcome = "running" <=> pc \in {"loop", "sleep"}
            /\ ref.outcome = "break" <=> WaitReturned
            /\ ref.outcome = "fail" <=>
                  \/ pc \in {"build_job", "build_results"}
                  \/ pc = "done" /\ info # None
            /\ ref.outcome = "raise" <=>
                  /\ pc = "done"
                  /\ info = None
                  /\ result.type = "ProcessingFailedError"
            /\ pc \notin {"loop", "sleep"} => NumStatus = Len(SleepLog) + 2

C20_Witness ==
    /\ entry = "wait_on_result"
    /\ pc = "done"
    /\ StatusSeq = <<"failed", "running", "successful">>
    /\ result = Return(None)
    /\ Len(SleepLog) = 1

TypeOK ==
    /\ pc \in {"idle", "prime", "loop", "sleep", "waited", "build_job",
               "build_results", "have_results", "have_status_info",
               "have_process_ids", "have_process", "done"}
    /\ server \in {"free", "pending", "settled"}
    /\ tracing \in BOOLEAN
    /\ result.kind \in {"none", "return", "raise"}
====
